---- MODULE Spec2Model ----
(***************************************************************************)
(* Probe-and-aggregate scanners of the repository, as one state machine.   *)
(*                                                                         *)
(* Three coordinators are modelled, selected by the variable impl:         *)
(*   "vpn_scanner"  src/vpn_scanner.py        (--vpn-type fortinet)        *)
(*   "refactored"   src/python_workers/vpn_scanner_refactored.py           *)
(*   "sers1"        src/Servis/sers1.py                                    *)
(* All three run on one asyncio event loop: a coroutine runs without       *)
(* interruption from one await to the next, so every action below is one   *)
(* such stretch of code.  The snapshot file is also visible to other       *)
(* processes, which can read it between any two file-system operations;    *)
(* a synchronous open(..., "w") / write is therefore two steps during      *)
(* which the event loop itself is blocked.                                 *)
(* The rps field of the counters is recomputed from the clock now; the     *)
(* runs of the specification Spec take place within the first tick.        *)
(*                                                                         *)
(* The aggregators that read the snapshot files of many workers are a      *)
(* second machine over variables of their own, selected by aggImpl:        *)
(*   "aggregator_refactored"  src/python_workers/aggregator_refactored.py  *)
(*   "aggregator"             src/aggregator.py                            *)
(* Their clock now advances in steps of TickSecs seconds.                  *)
(***************************************************************************)
EXTENDS Integers, Sequences, FiniteSets, TLC

\* ------------------------------------------------------------------ bounds
MaxItems == 2
MaxThreads == 2
MaxSources == 2
MaxTicks == 2

\* ------------------------------------------------------------- input space
Impls == {"vpn_scanner", "refactored", "sers1"}

\* A line of the credentials file is a sequence of tokens; ";" is the
\* delimiter.  One record with two fields, one with three, one with four.
CredAlphabet ==
    { <<"a", ";", "u">>,
      <<"a", ";", "u", ";", "p">>,
      <<"b", ";", "u", ";", "p", ";", "d">> }

\* The credential lists of up to MaxItems lines.  Every line gets a task of
\* its own and no step depends on the position of a line, so one list
\* stands for all its reorderings: the one with the shorter records first.
CredLists ==
    { l \in UNION { [1..n -> CredAlphabet] : n \in 0..MaxItems } :
          \A a, b \in 1..Len(l) : a < b => Len(l[a]) <= Len(l[b]) }

\* What one HTTP exchange can produce: a response (fault = "no") or an
\* exception raised inside session.post / response.text().  The run is
\* explored with one response that carries a success indicator and one that
\* does not, and with one exception of every kind the handlers tell apart.
Resp(st, b, l) == [fault |-> "no", status |-> st, body |-> b, location |-> l]
Raised(f) == [fault |-> f, status |-> 0, body |-> FALSE, location |-> FALSE]
Responses == { Resp(200, TRUE, FALSE), Resp(200, FALSE, FALSE) }
Faults == { Raised("Timeout"), Raised("ConnError"), Raised("Other") }
ProbeResults == Responses \cup Faults
NoResult == Raised("pending")

\* ------------------------------------------------------------------- state
VARIABLES
    impl,         \* which coordinator runs
    threads,      \* args.threads / THREADS
    credentials,  \* the loaded work items
    stats,        \* the counters dictionary
    semaphore,    \* asyncio.Semaphore._value
    pc,           \* position of each item's task
    mainPc,       \* position of main()
    pubPc,        \* position of update_stats() / dump_stats()
    statsFile,    \* content of stats_<pid>.json
    validFile,    \* lines appended to the results log by this run
    probeOut,     \* history: what each item's probe produced
    attempts,     \* history: probes issued per item
    counted,      \* history: increments applied per item
    rps,          \* stats["rps"], as the fraction processed / elapsed
    aggImpl,      \* which aggregator runs
    now,          \* time.time(), in seconds
    files,        \* content of each worker's stats_*.json
    aggPc,        \* position of the aggregator's polling loop
    todo,         \* files listed by this cycle and not read yet
    aggStats,     \* self.stats / the figures of the printed line
    server_stats, \* keys of self.server_stats
    active,       \* active_servers, the local set of collect_stats
    readDocs,     \* history: what this cycle read from each source
    cycles,       \* history: polling cycles completed
    creds_file,   \* the work-item source a coordinator is started on
    startPc,      \* position of the coordinator's startup
    loaded,       \* the work items the startup produced
    sec,          \* argument of human() / human_time()
    human_out,    \* the string human() returned
    lines,        \* razdelitel: the lines of gener.txt
    summer,       \* razdelitel: the number of lines of credentials.txt
    part_files,   \* razdelitel: the part files written so far
    procs,        \* scanner_manager: processes alive, per VPN type
    lastCall,     \* scanner_manager: history, the last call and its result
    remoteFile,   \* collect_results: the worker's valid*.txt
    localFiles,   \* collect_results: the copies saved locally
    collPc,       \* collect_results: position in the loop body
    content,      \* collect_results: what the collector read
    written       \* history: lines the scanner has appended

scanVars == << impl, threads, credentials, stats, semaphore, pc, mainPc,
               pubPc, statsFile, validFile, probeOut, attempts, counted, rps >>

aggVars == << aggImpl, now, files, aggPc, todo, aggStats, server_stats,
              active, readDocs, cycles >>

utilVars == << creds_file, startPc, loaded, sec, human_out, lines, summer,
               part_files, procs, lastCall, remoteFile, localFiles, collPc,
               content, written >>

vars == << scanVars, aggVars, utilVars >>

Items == 1..Len(credentials)

StatKeys == {"goods", "bads", "errors", "offline", "ipblock", "processed"}

ZeroStats == [k \in StatKeys |-> 0]

\* The snapshot file: not created yet, opened with "w" and still empty, or
\* holding one complete JSON document.
Absent == [state |-> "absent", data |-> ZeroStats]
Truncated == [state |-> "truncated", data |-> ZeroStats]
Complete(doc) == [state |-> "complete", data |-> doc]

\* cred.split(";"): the fields between the delimiters, empty ones included.
RECURSIVE split(_)
split(s) ==
    IF \A k \in 1..Len(s) : s[k] # ";"
    THEN << s >>
    ELSE LET k == CHOOSE k \in 1..Len(s) :
                      s[k] = ";" /\ \A j \in 1..(k - 1) : s[j] # ";"
         IN  << SubSeq(s, 1, k - 1) >> \o split(SubSeq(s, k + 1, Len(s)))

\* json.dumps(stats): every counter, as it is at the call.
json_dumps(s) == [k \in StatKeys |-> s[k]]

inc(s, k) == [s EXCEPT ![k] = @ + 1]

UniversalScanner == impl \in {"vpn_scanner", "refactored"}

\* The event loop is free to run a coroutine step: main is still inside
\* gather and no synchronous file write is in progress.
LoopFree ==
    /\ mainPc = "gather"
    /\ ~(impl \in {"vpn_scanner"} /\ pubPc = "writing")

\* asyncio.Semaphore: acquire proceeds only while _value > 0.
CanAcquireAlways(v) == TRUE
CanAcquire(v) == v > 0

\* check_fortinet: 200 with a success indicator in the body, or a
\* 301/302 whose Location holds one of the portal words.
check_fortinet_any_200(r) ==
    \/ r.status = 200
    \/ r.status \in {301, 302} /\ r.location
check_fortinet(r) ==
    \/ r.status = 200 /\ r.body
    \/ r.status \in {301, 302} /\ r.location

\* process_credential: the counter that the result of check_fortinet (a
\* value, a TimeoutError, any other exception) increments.
process_credential_counter(r) ==
    IF r.fault = "no"
    THEN IF check_fortinet(r) THEN "goods" ELSE "bads"
    ELSE IF r.fault = "Timeout" THEN "offline" ELSE "errors"

\* sers1.worker: resp.status==200 and 'vpn/tunnel' in txt
sers1_accepts(r) == r.status = 200 /\ r.body

\* sers1.worker: the counter incremented for a response or an exception.
worker_counter(r) ==
    IF r.fault = "no"
    THEN IF sers1_accepts(r) THEN "goods" ELSE "bads"
    ELSE IF r.fault \in {"Timeout", "ConnError"} THEN "offline" ELSE "errors"

\* stats["rps"] before the first recomputation.
ZeroRps == [num |-> 0, den |-> 1]

\* elapsed = time.time() - start_time; if elapsed > 0:
\*     stats["rps"] = stats["processed"] / elapsed
\* The scanner was started at time 0.
update_rps(st, old, t) ==
    IF t > 0 THEN [num |-> st["processed"], den |-> t] ELSE old

\* ------------------------------------------------------- aggregator data
AggImpls == {"aggregator_refactored", "aggregator"}

Sources == 1..MaxSources

\* The clock advances by TickSecs; the liveness window of collect_stats.
TickSecs == 15
LivenessWindow == 30

\* A snapshot document.  timestamp = -1 stands for a document without the
\* key: vpn_scanner.py dumps its stats dictionary as it is, the refactored
\* scanner adds "timestamp" in to_dict.
SnapKeys == StatKeys \cup {"rps", "timestamp"}
ZeroSnap == [k \in SnapKeys |-> IF k = "timestamp" THEN -1 ELSE 0]
SnapPlain ==
    [ZeroSnap EXCEPT !["goods"] = 1, !["processed"] = 1, !["rps"] = 1]
SnapStamped(t) ==
    [ZeroSnap EXCEPT !["goods"] = 1, !["bads"] = 1, !["processed"] = 2,
                     !["rps"] = 2, !["timestamp"] = t]

\* The worker behind source s: vpn_scanner.py behind the odd ones, the
\* refactored scanner behind the even ones.  What it publishes at time t.
to_dict(s, t) == IF s % 2 = 1 THEN SnapPlain ELSE SnapStamped(t)

\* A worker's snapshot file: not there, opened with "w" and still empty, or
\* holding one complete document.
SnapMissing == [state |-> "missing", data |-> ZeroSnap]
SnapTruncated == [state |-> "truncated", data |-> ZeroSnap]
Snap(doc) == [state |-> "complete", data |-> doc]

\* open + read + json.loads: FileNotFoundError for a missing file,
\* JSONDecodeError for an empty one, OSError when the read fails (ioerr).
ReadFailed == [ok |-> FALSE, data |-> ZeroSnap]
json_loads(file, ioerr) ==
    IF ioerr \/ file.state # "complete"
    THEN ReadFailed
    ELSE [ok |-> TRUE, data |-> file.data]

\* ServerStats.from_dict: timestamp=data.get('timestamp', int(time.time()))
from_dict_epoch(data, t) ==
    IF data["timestamp"] = -1 THEN [data EXCEPT !["timestamp"] = 0] ELSE data
from_dict(data, t) ==
    IF data["timestamp"] = -1 THEN [data EXCEPT !["timestamp"] = t] ELSE data

\* time.time() - server_stats.timestamp < 30
is_active_inclusive(ss, t) == t - ss["timestamp"] <= LivenessWindow
is_active(ss, t) == t - ss["timestamp"] < LivenessWindow

\* AggregatedStats(): every figure zero, start_time as given.
AggregatedStats(start) ==
    [goods |-> 0, bads |-> 0, errors |-> 0, offline |-> 0, ipblock |-> 0,
     processed |-> 0, rps_num |-> 0, rps_den |-> 1, servers |-> 0,
     active_servers |-> 0, uptime |-> 0, start_time |-> start]

\* self.stats = AggregatedStats(start_time=self.stats.start_time);
\* stats_all=[]
reset_stats_kept(st) == st
reset_stats(st) == AggregatedStats(st.start_time)

\* self.stats.goods += server_stats.goods ... ; tot(k) of aggregator.py
add_counters(st, d) == [k \in DOMAIN st |->
                           IF k \in StatKeys THEN st[k] + d[k] ELSE st[k]]

\* Where the loop over the files continues after a failed read: the
\* try/except around each file swallows the exception.
on_read_error_propagates == "raised"
on_read_error == "reading"

Totals(st) == [k \in StatKeys |-> st[k]]
NotRead == [state |-> "none", data |-> ZeroSnap]

\* ---- The utilities: startup, human(), razdelitel, manager, collector ----

ScannerTypes ==
    { "fortinet", "paloalto", "sonicwall", "cisco", "sophos", "watchguard" }

NoFile == [state |-> "missing", lines |-> << >>]
NoCall == [op |-> "none", vpn_type |-> "fortinet", popen_ok |-> TRUE,
           alive |-> 0, result |-> FALSE]

\* None of the utilities has been started.
StartupIdle == creds_file = NoFile /\ startPc = "idle" /\ loaded = << >>
HumanIdle == sec = 0 /\ human_out = << >>
SplitIdle == lines = << >> /\ summer = 0 /\ part_files = << >>
ManagerIdle == procs = [t \in ScannerTypes |-> 0] /\ lastCall = NoCall
CollectIdle ==
    /\ remoteFile = NoFile
    /\ localFiles = << >>
    /\ collPc = "idle"
    /\ content = << >>
    /\ written = 0

UtilIdle ==
    StartupIdle /\ HumanIdle /\ SplitIdle /\ ManagerIdle /\ CollectIdle

\* The aggregator has not been started and no worker has written a file.
AggStart ==
    /\ now = 0
    /\ aggPc = "idle"
    /\ todo = {}
    /\ aggStats = AggregatedStats(0)
    /\ server_stats = {}
    /\ active = {}
    /\ readDocs = [s \in Sources |-> NotRead]
    /\ cycles = 0

AggInit == AggStart /\ files = [s \in Sources |-> SnapMissing]

Init ==
    /\ aggImpl = "aggregator_refactored"
    /\ AggInit
    /\ UtilIdle
    /\ impl \in Impls
    /\ threads \in 1..MaxThreads
    /\ credentials \in CredLists
    /\ stats = ZeroStats
    /\ semaphore = threads
    /\ pc = [i \in 1..Len(credentials) |-> "created"]
    /\ mainPc = "gather"
    /\ pubPc = "sleep"
    /\ statsFile = Absent
    /\ validFile = << >>
    /\ probeOut = [i \in 1..Len(credentials) |-> NoResult]
    /\ attempts = [i \in 1..Len(credentials) |-> 0]
    /\ counted = [i \in 1..Len(credentials) |->
                     [outcome |-> 0, processed |-> 0, appended |-> "no"]]
    /\ rps = ZeroRps

StaticPub ==
    /\ UNCHANGED << impl, threads, credentials >>
    /\ UNCHANGED aggVars
    /\ UNCHANGED utilVars
Static == StaticPub /\ UNCHANGED rps

setPc(i, v) == pc' = [pc EXCEPT ![i] = v]

\* One item's history after an increment of an outcome counter and/or of
\* processed.
note(i, o, p) ==
    counted' = [counted EXCEPT ![i].outcome = @ + o, ![i].processed = @ + p]

\* ------------------------------------------- asyncio.Semaphore (the gate)
\* "async with semaphore" when the first attempt found no free slot: the
\* task resumes once a slot is free.
semaphore_acquire(i) ==
    /\ LoopFree
    /\ pc[i] = "waitsem"
    /\ CanAcquire(semaphore)
    /\ semaphore' = semaphore - 1
    /\ setPc(i, "probing")
    /\ attempts' = [attempts EXCEPT ![i] = @ + 1]
    /\ UNCHANGED << stats, mainPc, pubPc, statsFile, validFile, probeOut,
                    counted >>
    /\ Static

\* --------------------------------- vpn_scanner / refactored: one work item
\* process_credential up to its first await: split, the length check, then
\* check_fortinet up to session.post (or up to the wait for a slot).
process_credential_start(i) ==
    /\ UniversalScanner
    /\ LoopFree
    /\ pc[i] = "created"
    /\ LET parts == split(credentials[i]) IN
       IF Len(parts) < 3
       THEN \* ValueError, caught by "except Exception"
            /\ stats' = inc(inc(stats, "errors"), "processed")
            /\ note(i, 1, 1)
            /\ setPc(i, "done")
            /\ UNCHANGED << semaphore, attempts >>
       ELSE IF CanAcquire(semaphore)
            THEN /\ semaphore' = semaphore - 1
                 /\ setPc(i, "probing")
                 /\ attempts' = [attempts EXCEPT ![i] = @ + 1]
                 /\ UNCHANGED << stats, counted >>
            ELSE /\ setPc(i, "waitsem")
                 /\ UNCHANGED << stats, counted, semaphore, attempts >>
    /\ UNCHANGED << mainPc, pubPc, statsFile, validFile, probeOut >>
    /\ Static

\* The HTTP exchange ends with r: check_fortinet leaves "async with
\* semaphore" and process_credential classifies, up to its next await.
process_credential_result(i, r) ==
    /\ UniversalScanner
    /\ LoopFree
    /\ pc[i] = "probing"
    /\ semaphore' = semaphore + 1
    /\ probeOut' = [probeOut EXCEPT ![i] = r]
    /\ LET k == process_credential_counter(r) IN
       IF k = "goods"
       THEN \* goods += 1, then await aiofiles.open
            /\ stats' = inc(stats, "goods")
            /\ note(i, 1, 0)
            /\ setPc(i, "appending")
       ELSE /\ stats' = inc(inc(stats, k), "processed")
            /\ note(i, 1, 1)
            /\ setPc(i, "done")
    /\ UNCHANGED << mainPc, pubPc, statsFile, validFile, attempts >>
    /\ Static

\* What f.write(f"{cred}\n") puts in the results log.
valid_line_rebuilt(cred) ==
    LET parts == split(cred) IN
    parts[1] \o << ";" >> \o parts[2] \o << ";" >> \o parts[3]
valid_line(cred) == cred

\* The append to the results log ends: written (ok) or raised (~ok).
process_credential_append(i, ok) ==
    /\ UniversalScanner
    /\ LoopFree
    /\ pc[i] = "appending"
    /\ IF ok
       THEN /\ validFile' = Append(validFile, valid_line(credentials[i]))
            /\ stats' = inc(stats, "processed")
            /\ counted' = [counted EXCEPT ![i].processed = @ + 1,
                                          ![i].appended = "ok"]
       ELSE \* the exception lands in "except Exception"
            /\ validFile' = validFile
            /\ stats' = inc(inc(stats, "errors"), "processed")
            /\ counted' = [counted EXCEPT ![i].outcome = @ + 1,
                                          ![i].processed = @ + 1,
                                          ![i].appended = "failed"]
    /\ setPc(i, "done")
    /\ UNCHANGED << semaphore, mainPc, pubPc, statsFile, probeOut, attempts >>
    /\ Static

\* ------------------------------------------------------ sers1: one work item
\* worker up to its first await: the unpacking of combo.split(';') stands
\* before the try, then processed += 1, then "async with SEM".
worker_start(i) ==
    /\ impl = "sers1"
    /\ LoopFree
    /\ pc[i] = "created"
    /\ LET parts == split(credentials[i]) IN
       IF Len(parts) # 3
       THEN \* ValueError leaves the coroutine: the task ends with it
            /\ setPc(i, "failed")
            /\ UNCHANGED << stats, counted, semaphore, attempts >>
       ELSE /\ stats' = inc(stats, "processed")
            /\ note(i, 0, 1)
            /\ IF CanAcquire(semaphore)
               THEN /\ semaphore' = semaphore - 1
                    /\ setPc(i, "probing")
                    /\ attempts' = [attempts EXCEPT ![i] = @ + 1]
               ELSE /\ setPc(i, "waitsem")
                    /\ UNCHANGED << semaphore, attempts >>
    /\ UNCHANGED << mainPc, pubPc, statsFile, validFile, probeOut >>
    /\ Static

\* The HTTP exchange ends with r; the slot is held until the "async with
\* SEM" block is left, which for an accepted item is after the append.
worker_result(i, r) ==
    /\ impl = "sers1"
    /\ LoopFree
    /\ pc[i] = "probing"
    /\ probeOut' = [probeOut EXCEPT ![i] = r]
    /\ LET k == worker_counter(r) IN
       /\ stats' = inc(stats, k)
       /\ IF k = "goods"
          THEN \* then await aiofiles.open, inside "async with SEM"
               /\ setPc(i, "appending")
               /\ UNCHANGED semaphore
          ELSE /\ setPc(i, "done")
               /\ semaphore' = semaphore + 1
    /\ note(i, 1, 0)
    /\ UNCHANGED << mainPc, pubPc, statsFile, validFile, attempts >>
    /\ Static

\* The append to valid.txt ends: written (ok) or raised (~ok).
worker_append(i, ok) ==
    /\ impl = "sers1"
    /\ LoopFree
    /\ pc[i] = "appending"
    /\ IF ok
       THEN /\ validFile' = Append(validFile, valid_line(credentials[i]))
            /\ stats' = stats
            /\ counted' = [counted EXCEPT ![i].appended = "ok"]
       ELSE \* the exception lands in "except Exception"
            /\ validFile' = validFile
            /\ stats' = inc(stats, "errors")
            /\ counted' = [counted EXCEPT ![i].outcome = @ + 1,
                                          ![i].appended = "failed"]
    /\ semaphore' = semaphore + 1
    /\ setPc(i, "done")
    /\ UNCHANGED << mainPc, pubPc, statsFile, probeOut, attempts >>
    /\ Static

\* --------------------------------------------------------- Stats Publisher
StatsOnly == UNCHANGED << stats, semaphore, pc, mainPc, validFile, probeOut,
                          attempts, counted >>

\* update_stats: the rps field is recomputed, then open(stats_file, "w")
\* truncates the file.
update_stats_open ==
    /\ UniversalScanner
    /\ mainPc = "gather"
    /\ pubPc = "sleep"
    /\ rps' = update_rps(stats, rps, now)
    /\ statsFile' = Truncated
    /\ pubPc' = "writing"
    /\ StatsOnly
    /\ StaticPub

\* update_stats: json.dump(stats, f) and the close that flushes it; then
\* asyncio.sleep(1).
update_stats_write ==
    /\ UniversalScanner
    /\ mainPc = "gather"
    /\ pubPc = "writing"
    /\ statsFile' = Complete(json_dumps(stats))
    /\ pubPc' = "sleep"
    /\ StatsOnly
    /\ Static

\* dump_stats: tmp.write_text(json.dumps(stats)); tmp.replace(STATS_PATH);
\* asyncio.sleep(2).  Only the rename touches the snapshot file.
dump_stats ==
    /\ impl = "sers1"
    /\ mainPc = "gather"
    /\ pubPc = "sleep"
    /\ statsFile' = Complete(json_dumps(stats))
    /\ pubPc' = "sleep"
    /\ StatsOnly
    /\ Static

\* -------------------------------------------------------------------- main
Unfinished == { i \in Items : pc[i] \in {"created", "waitsem", "probing",
                                          "appending"} }

\* stats_task.cancel(); await stats_task  (sers1: asyncio.run cancels the
\* dump_stats task when main returns).
cancel_stats_task == pubPc' = "cancelled"

\* gather(*tasks) returns: every task has finished without an exception.
main_gather_return ==
    /\ LoopFree
    /\ \A i \in Items : pc[i] = "done"
    /\ cancel_stats_task
    /\ mainPc' = "final"
    /\ UNCHANGED << stats, semaphore, pc, statsFile, validFile, probeOut,
                    attempts, counted >>
    /\ Static

\* gather(*tasks) re-raises the exception of a task: main ends with it and
\* asyncio.run cancels every task that is still pending.  CancelledError is
\* not an Exception, so a cancelled worker counts nothing more; leaving
\* "async with SEM" releases its slot.
main_gather_raise ==
    /\ LoopFree
    /\ \E i \in Items : pc[i] = "failed"
    /\ pc' = [i \in Items |-> IF i \in Unfinished THEN "cancelled" ELSE pc[i]]
    /\ semaphore' = semaphore +
           Cardinality({ i \in Items : pc[i] \in {"probing", "appending"} })
    /\ counted' = [i \in Items |->
           IF pc[i] = "appending"
           THEN [counted[i] EXCEPT !.appended = "cut"] ELSE counted[i]]
    /\ cancel_stats_task
    /\ mainPc' = "crashed"
    /\ UNCHANGED << stats, statsFile, validFile, probeOut, attempts >>
    /\ Static

\* Ctrl-C while asyncio.run(main()) is running: asyncio.run cancels every
\* task that is still pending (the workers and the publisher) and
\* KeyboardInterrupt leaves asyncio.run.  A cancelled worker counts nothing
\* more; leaving "async with" releases its slot.
keyboard_interrupt ==
    /\ mainPc = "gather"
    /\ pc' = [i \in Items |-> IF i \in Unfinished THEN "cancelled" ELSE pc[i]]
    /\ semaphore' = semaphore +
           Cardinality({ i \in Items : \/ pc[i] = "probing"
                                        \/ /\ impl = "sers1"
                                           /\ pc[i] = "appending" })
    /\ counted' = [i \in Items |->
           IF pc[i] = "appending"
           THEN [counted[i] EXCEPT !.appended = "cut"] ELSE counted[i]]
    /\ cancel_stats_task
    /\ mainPc' = "interrupted"
    /\ UNCHANGED << stats, statsFile, validFile, probeOut, attempts >>
    /\ Static

\* The handler of the interrupt writes a final dump in vpn_scanner.py
\* ("except KeyboardInterrupt") and in sers1.py ("finally"); the handler of
\* vpn_scanner_refactored.py only logs and calls sys.exit(1).
InterruptDumps == impl \in {"vpn_scanner", "sers1"}

\* vpn_scanner_refactored.py: except KeyboardInterrupt: sys.exit(1).
interrupt_exit ==
    /\ mainPc = "interrupted"
    /\ ~InterruptDumps
    /\ mainPc' = "stopped"
    /\ UNCHANGED << stats, semaphore, pc, pubPc, statsFile, validFile,
                    probeOut, attempts, counted >>
    /\ Static

\* What the final dump leaves in the snapshot file: open(..., "w") /
\* write_text truncate it, then the document is written and the file closed.
final_dump_skipped(phase) == statsFile
final_dump_file(phase) ==
    IF phase = "open" THEN Truncated ELSE Complete(json_dumps(stats))

\* The final dump after the tasks have ended, first half.
final_dump_open ==
    /\ \/ mainPc \in {"final", "crashed"}
       \/ mainPc = "interrupted" /\ InterruptDumps
    /\ statsFile' = final_dump_file("open")
    /\ mainPc' = CASE mainPc = "final" -> "finalw"
                  [] mainPc = "crashed" -> "crashw"
                  [] OTHER -> "intw"
    /\ UNCHANGED << stats, semaphore, pc, pubPc, validFile, probeOut,
                    attempts, counted >>
    /\ rps' = IF impl = "refactored"
              THEN update_rps(stats, rps, now) ELSE rps
    /\ StaticPub

\* The final dump, second half.
final_dump_write ==
    /\ mainPc \in {"finalw", "crashw", "intw"}
    /\ statsFile' = final_dump_file("write")
    /\ mainPc' = CASE mainPc = "finalw" -> "done"
                  [] mainPc = "crashw" -> "aborted"
                  [] OTHER -> "stopped"
    /\ UNCHANGED << stats, semaphore, pc, pubPc, validFile, probeOut,
                    attempts, counted >>
    /\ Static

\* ------------------------------------------------------------ specification
Next ==
    \/ \E i \in Items : semaphore_acquire(i)
    \/ \E i \in Items : process_credential_start(i)
    \/ \E i \in Items, r \in ProbeResults : process_credential_result(i, r)
    \/ \E i \in Items, ok \in BOOLEAN : process_credential_append(i, ok)
    \/ \E i \in Items : worker_start(i)
    \/ \E i \in Items, r \in ProbeResults : worker_result(i, r)
    \/ \E i \in Items, ok \in BOOLEAN : worker_append(i, ok)
    \/ update_stats_open
    \/ update_stats_write
    \/ dump_stats
    \/ main_gather_return
    \/ main_gather_raise
    \/ keyboard_interrupt
    \/ interrupt_exit
    \/ final_dump_open
    \/ final_dump_write

Spec == Init /\ [][Next]_vars

TypeOK ==
    /\ impl \in Impls
    /\ threads \in 1..MaxThreads
    /\ semaphore \in 0..threads
    /\ \A k \in StatKeys : stats[k] \in Nat
    /\ pubPc \in {"sleep", "writing", "cancelled"}
    /\ mainPc \in {"gather", "final", "finalw", "done", "crashed", "crashw",
                   "aborted", "interrupted", "intw", "stopped"}

\* ------------------------------------------- specification of one probe
\* One well-formed record and one slot, with every kind of answer the HTTP
\* exchange can end in: the statuses the probes test for (200, 301, 302),
\* a refusal (401) and a rate limit (429), each with and without a success
\* indicator in the body and in the Location header, and the exceptions.
ProbeStatuses == {200, 301, 302, 401, 429}
AllProbeResults ==
    { Resp(st, b, l) : st \in ProbeStatuses, b \in BOOLEAN, l \in BOOLEAN }
        \cup Faults

InitProbe ==
    /\ Init
    /\ threads = 1
    /\ credentials = << <<"a", ";", "u", ";", "p">> >>

NextProbe ==
    \/ \E i \in Items : process_credential_start(i)
    \/ \E i \in Items, r \in AllProbeResults : process_credential_result(i, r)
    \/ \E i \in Items, ok \in BOOLEAN : process_credential_append(i, ok)
    \/ \E i \in Items : worker_start(i)
    \/ \E i \in Items, r \in AllProbeResults : worker_result(i, r)
    \/ \E i \in Items, ok \in BOOLEAN : worker_append(i, ok)
    \/ update_stats_open
    \/ update_stats_write
    \/ dump_stats
    \/ main_gather_return
    \/ keyboard_interrupt
    \/ interrupt_exit
    \/ final_dump_open
    \/ final_dump_write

SpecProbe == InitProbe /\ [][NextProbe]_vars

\* ------------------------------------------------------------ aggregator
Refactored == aggImpl = "aggregator_refactored"

\* The file the loop over the listing reads next.
NextFile == CHOOSE s \in todo : \A t \in todo : s <= t

\* collect_stats up to the first read / the top of the while loop of
\* aggregator.main: fresh totals, the listing of the stats_*.json files
\* that are there.  self.server_stats is left as it is.
collect_begin ==
    /\ aggPc = "idle"
    /\ aggStats' = reset_stats(aggStats)
    /\ todo' = { s \in Sources : files[s].state # "missing" }
    /\ active' = {}
    /\ readDocs' = [s \in Sources |-> NotRead]
    /\ aggPc' = "reading"
    /\ UNCHANGED << aggImpl, now, files, server_stats, cycles >>
    /\ UNCHANGED << scanVars, utilVars >>

\* One file of the listing is read and added; an exception while reading or
\* parsing it is caught and the loop goes on with the next file.
collect_file(ioerr) ==
    /\ aggPc = "reading"
    /\ todo # {}
    /\ LET s == NextFile
           res == json_loads(files[s], ioerr)
       IN  /\ todo' = todo \ {s}
           /\ IF res.ok
              THEN LET ss == from_dict(res.data, now) IN
                   /\ server_stats' = IF Refactored
                                      THEN server_stats \cup {s}
                                      ELSE server_stats
                   /\ active' = IF Refactored /\ is_active(ss, now)
                                THEN active \cup {s}
                                ELSE active
                   /\ aggStats' =
                          IF Refactored
                          THEN [add_counters(aggStats, ss)
                                   EXCEPT !.rps_num = @ + ss["rps"]]
                          ELSE add_counters(aggStats, res.data)
                   /\ readDocs' = [readDocs EXCEPT
                                      ![s] = [state |-> "ok",
                                              data |-> res.data]]
                   /\ aggPc' = "reading"
              ELSE /\ readDocs' = [readDocs EXCEPT
                                      ![s] = [state |-> "failed",
                                              data |-> ZeroSnap]]
                   /\ aggPc' = on_read_error
                   /\ UNCHANGED << server_stats, active, aggStats >>
    /\ UNCHANGED << aggImpl, now, files, cycles >>
    /\ UNCHANGED << scanVars, utilVars >>

\* After the last file: servers, active_servers and the uptime of to_dict
\* (refactored), or the speed and uptime of the printed line (aggregator.py,
\* speed = processed/(time.time()-start+1e-3), kept as a fraction in
\* thousandths); then the sleep of the poll interval.
collect_end ==
    /\ aggPc = "reading"
    /\ todo = {}
    /\ aggStats' =
           IF Refactored
           THEN [aggStats EXCEPT
                    !.servers = Cardinality(server_stats),
                    !.active_servers = Cardinality(active),
                    !.uptime = now - aggStats.start_time]
           ELSE [aggStats EXCEPT
                    !.rps_num = aggStats.processed * 1000,
                    !.rps_den = (now - aggStats.start_time) * 1000 + 1,
                    !.uptime = now - aggStats.start_time]
    /\ aggPc' = "sleeping"
    /\ cycles' = cycles + 1
    /\ UNCHANGED << aggImpl, now, files, todo, server_stats, active,
                    readDocs >>
    /\ UNCHANGED << scanVars, utilVars >>

\* TickSecs seconds pass; a sleeping aggregator wakes up.
tick ==
    /\ now < MaxTicks * TickSecs
    /\ now' = now + TickSecs
    /\ aggPc' = IF aggPc = "sleeping" THEN "idle" ELSE aggPc
    /\ UNCHANGED << aggImpl, files, todo, aggStats, server_stats, active,
                    readDocs, cycles >>
    /\ UNCHANGED << scanVars, utilVars >>

\* The workers write while the aggregator runs; what they do to the files
\* during its sleep shows when it wakes up.
FilesOnly ==
    /\ aggPc # "sleeping"
    /\ UNCHANGED << aggImpl, now, aggPc, todo, aggStats, server_stats, active,
                    readDocs, cycles >>

\* A worker publishes a complete snapshot (the write is closed, or the
\* temporary file is renamed over the snapshot).
snapshot_publish(s) ==
    /\ files[s] # Snap(to_dict(s, now))
    /\ files' = [files EXCEPT ![s] = Snap(to_dict(s, now))]
    /\ FilesOnly
    /\ UNCHANGED << scanVars, utilVars >>

\* A worker has opened its snapshot with "w" and not written yet.
snapshot_truncate(s) ==
    /\ files[s].state # "truncated"
    /\ files' = [files EXCEPT ![s] = SnapTruncated]
    /\ FilesOnly
    /\ UNCHANGED << scanVars, utilVars >>

\* A worker's snapshot file is removed.
snapshot_remove(s) ==
    /\ files[s].state # "missing"
    /\ files' = [files EXCEPT ![s] = SnapMissing]
    /\ FilesOnly
    /\ UNCHANGED << scanVars, utilVars >>

\* No scanner runs in the process of the aggregator.
ScanRest ==
    /\ threads = 1
    /\ credentials = << >>
    /\ stats = ZeroStats
    /\ semaphore = 1
    /\ pc = << >>
    /\ mainPc = "gather"
    /\ pubPc = "sleep"
    /\ statsFile = Absent
    /\ validFile = << >>
    /\ probeOut = << >>
    /\ attempts = << >>
    /\ counted = << >>
    /\ rps = ZeroRps

ScanIdle == impl = "vpn_scanner" /\ ScanRest

InitAgg ==
    /\ aggImpl \in AggImpls
    /\ AggInit
    /\ ScanIdle
    /\ UtilIdle

NextAgg ==
    \/ collect_begin
    \/ \E ioerr \in BOOLEAN : collect_file(ioerr)
    \/ collect_end
    \/ tick
    \/ \E s \in Sources : snapshot_publish(s)
    \/ \E s \in Sources : snapshot_truncate(s)
    \/ \E s \in Sources : snapshot_remove(s)

SpecAgg == InitAgg /\ [][NextAgg]_vars

\* The aggregator over a set of snapshot files that nobody changes and
\* that the disk reads without errors.
FileContents ==
    { SnapMissing, SnapTruncated, Snap(SnapPlain), Snap(SnapStamped(0)) }

InitStable ==
    /\ aggImpl \in AggImpls
    /\ AggStart
    /\ files \in [Sources -> FileContents]
    /\ ScanIdle
    /\ UtilIdle

NextStable ==
    \/ collect_begin
    \/ collect_file(FALSE)
    \/ collect_end
    \/ tick

SpecStable == InitStable /\ [][NextStable]_vars

AggTypeOK ==
    /\ aggImpl \in AggImpls
    /\ now \in 0..(MaxTicks * TickSecs)
    /\ aggPc \in {"idle", "reading", "sleeping", "raised", "hung"}
    /\ todo \subseteq Sources
    /\ server_stats \subseteq Sources
    /\ active \subseteq server_stats
    /\ \A s \in Sources : files[s].state \in {"missing", "truncated",
                                               "complete"}

\* ------------------------------------------------------------------ claims
Sum(d) == d["goods"] + d["bads"] + d["offline"] + d["ipblock"] + d["errors"]

\* Items between acquiring and releasing a slot of the gate.
Holding ==
    { i \in Items : \/ pc[i] = "probing"
                    \/ impl = "sers1" /\ pc[i] = "appending" }

\* No task is between its start and its end.
NoneInFlight == \A i \in Items : pc[i] \notin {"waitsem", "probing",
                                                "appending"}

\* No probe in flight and every started item has been classified.
Quiescent == \A i \in Items : pc[i] \in {"created", "done", "failed"}

CountOf(S) == Cardinality(S)

\* C1: in every reachable state the number of probes between acquiring and
\* releasing a gate slot is at most the configured concurrency.
C1_ConcurrencyBound == CountOf(Holding) <= threads

C1_Witness ==
    /\ CountOf(Holding) = threads
    /\ \E i \in Items : pc[i] = "waitsem"

\* C2: whenever no probe is in flight and every started item has been
\* classified, processed equals goods + bads + offline + ipblock + errors.
C2_SumAtQuiescence == Quiescent => stats["processed"] = Sum(stats)

\* The counter the running coordinator increments for a probe result.
counter_of(r) ==
    IF UniversalScanner THEN process_credential_counter(r) ELSE worker_counter(r)

Probed(k) == { i \in Items : probeOut[i] # NoResult
                               /\ counter_of(probeOut[i]) = k }
NotProbed == { i \in Items : probeOut[i] = NoResult }

\* C3: when run has returned, every item was probed at most once and
\* processed exactly once, processed is the number of items, and every
\* outcome counter is the number of items whose probe produced that outcome
\* (an item rejected before its probe counts as an error).
C3_FinalCounters ==
    mainPc = "done" =>
        /\ \A i \in Items : attempts[i] <= 1 /\ counted[i].processed = 1
        /\ stats["processed"] = Len(credentials)
        /\ stats["goods"] = CountOf(Probed("goods"))
        /\ stats["bads"] = CountOf(Probed("bads"))
        /\ stats["offline"] = CountOf(Probed("offline"))
        /\ stats["errors"] = CountOf(Probed("errors")) + CountOf(NotProbed)

\* A step that puts a complete document in the snapshot file.
Published == statsFile' # statsFile /\ statsFile'.state = "complete"

\* C4: in every published snapshot processed minus the sum of the outcome
\* counters is at least 0 and at most the number of items holding a gate
\* slot at that moment, hence at most the concurrency.
C4_SnapshotLag ==
    [][Published =>
          LET lag == statsFile'.data["processed"] - Sum(statsFile'.data) IN
          /\ lag >= 0
          /\ lag <= CountOf(Holding)
          /\ lag <= threads]_vars

\* C5: no published snapshot contains the outcome increment of an item
\* without the processed increment of that item.
C5_SingleUpdate ==
    [][Published =>
          \A i \in Items :
              counted[i].outcome > 0 => counted[i].processed > 0]_vars

\* C6: at every moment the snapshot file, once it exists, holds one complete
\* document: a reader never finds it empty or partially written.
C6_ReaderSeesComplete == statsFile.state # "truncated"

\* C7: when a run has completed cleanly the periodic publisher has stopped
\* and the snapshot file holds the final counters.
C7_FinalPublish ==
    mainPc = "done" =>
        /\ pubPc = "cancelled"
        /\ statsFile = Complete(json_dumps(stats))

C7_Witness ==
    /\ mainPc = "done"
    /\ Len(credentials) = MaxItems
    /\ stats["processed"] = MaxItems

\* C8: a failure while handling one item never leaves run: no task ends with
\* an exception, main is never ended by one and no other item is cancelled.
C8_NoAbort ==
    /\ mainPc \notin {"crashed", "crashw", "aborted"}
    /\ \A i \in Items : pc[i] \notin {"failed", "cancelled"}

\* A record of the form target;principal;secret[;extra].
WellFormed(cred) == Len(split(cred)) \in {3, 4}

\* C9: no probe is issued for a malformed record, a malformed record never
\* ends the batch, and once the run is over every well-formed record has
\* been processed.
C9_MalformedSkipped ==
    /\ \A i \in Items : ~WellFormed(credentials[i]) => attempts[i] = 0
    /\ (\E i \in Items : ~WellFormed(credentials[i])) =>
           mainPc \notin {"crashed", "crashw", "aborted"}
    /\ mainPc \in {"done", "aborted"} =>
           \A i \in Items :
               WellFormed(credentials[i]) => counted[i].processed = 1

LinesOf(x) == { n \in 1..Len(validFile) : validFile[n] = x }

Accepted == { i \in Items : probeOut[i] # NoResult
                              /\ counter_of(probeOut[i]) = "goods" }

NotWritten == { i \in Accepted : counted[i].appended \in {"failed", "cut"} }

OutcomeKeys == StatKeys \ {"processed"}

\* C11: an accepted item whose append to the results log failed is counted
\* in the accepted counter only (one outcome increment, one processed
\* increment), and at quiescence processed is still the sum of the outcome
\* counters.
C11_FailedAppendCounted ==
    /\ \A i \in Items :
           counted[i].appended = "failed" =>
               counted[i].outcome = 1 /\ counted[i].processed = 1
    /\ (Quiescent /\ \E i \in Items : counted[i].appended = "failed") =>
           stats["processed"] = Sum(stats)

\* The step in which the probe of item i ends with result r.
ProbeEnds(i) == probeOut[i] = NoResult /\ probeOut'[i] # NoResult

\* The step increments the outcome counter k and no other outcome counter.
OnlyIncrements(k) ==
    /\ stats'[k] = stats[k] + 1
    /\ \A o \in OutcomeKeys \ {k} : stats'[o] = stats[o]

\* C12: a probe that ends in a timeout or in a connection failure increments
\* offline and no other outcome counter.
C12_UnreachableCounted ==
    [][\A i \in Items :
          (ProbeEnds(i) /\ probeOut'[i].fault \in {"Timeout", "ConnError"})
              => OnlyIncrements("offline")]_vars

\* C20: when the run was interrupted by a shutdown signal and the process
\* has ended, the snapshot file holds the final dump: the complete document
\* of the in-memory counters.
C20_InterruptPublishes ==
    mainPc = "stopped" => statsFile = Complete(json_dumps(stats))

\* C13: a probe answered with a rate-limit signal (HTTP 429) increments
\* ipblock and no other outcome counter.
C13_RateLimitCounted ==
    [][\A i \in Items :
          (ProbeEnds(i) /\ probeOut'[i].fault = "no"
                        /\ probeOut'[i].status = 429)
              => OnlyIncrements("ipblock")]_vars

\* The success criteria: 200 with a success marker in the body, or, for the
\* probes that look at redirects, 301/302 with a marker in Location.
SuccessCriterion(r) ==
    \/ r.status = 200 /\ r.body
    \/ UniversalScanner /\ r.status \in {301, 302} /\ r.location

\* C14: a response is counted as accepted exactly when a success criterion
\* matches it (so 200 with a marker in the body is accepted); a response
\* matching none is counted as rejected.
C14_AcceptedOnlyOnCriterion ==
    [][\A i \in Items :
          (ProbeEnds(i) /\ probeOut'[i].fault = "no")
              => IF SuccessCriterion(probeOut'[i])
                 THEN OnlyIncrements("goods")
                 ELSE OnlyIncrements("bads")]_vars

\* A 200 with a marker was accepted, by the redirect-aware probe.
C14_Witness ==
    /\ impl = "vpn_scanner"
    /\ \E i \in Items :
           /\ probeOut[i] = Resp(200, TRUE, FALSE)
           /\ counted[i].outcome = 1
    /\ stats["goods"] = 1
    /\ stats["bads"] = 0

\* The sources this cycle read successfully, and the sum of counter k over
\* the documents it read from them.
ReadOk == { s \in Sources : readDocs[s].state = "ok" }
ReadFailures == { s \in Sources : readDocs[s].state = "failed" }
RECURSIVE SumRead(_, _)
SumRead(n, k) ==
    IF n = 0 THEN 0
    ELSE SumRead(n - 1, k) + (IF n \in ReadOk THEN readDocs[n].data[k] ELSE 0)

\* C15: a cycle in which reads fail (file missing at the open, empty file,
\* I/O error) never raises, and the totals it ends with are the sums of the
\* counters over exactly the sources it read successfully.
C15_PartialFailureTolerated ==
    /\ aggPc # "raised"
    /\ aggPc = "sleeping" =>
           \A k \in StatKeys : aggStats[k] = SumRead(MaxSources, k)

\* A cycle has ended in which one source was read and another failed.
C15_Witness ==
    /\ aggPc = "sleeping"
    /\ ReadOk # {}
    /\ ReadFailures # {}
    /\ aggStats.processed > 0

\* C16: the servers figure of a cycle is the number of sources read
\* successfully in that cycle.
C16_NoHistoryRetained ==
    (Refactored /\ aggPc = "sleeping") =>
        aggStats.servers = Cardinality(ReadOk)

\* The step in which source s is read successfully.
ReadsOk(s) == readDocs[s].state = "none" /\ readDocs'[s].state = "ok"

\* C17: a snapshot read successfully is put among the active servers if and
\* only if now - timestamp < 30; active or stale, its counters are added to
\* the totals and it is counted in servers; the cycle reports the number of
\* active servers so found.
C17_LivenessWindow ==
    [][/\ \A s \in Sources :
             (Refactored /\ ReadsOk(s)
                         /\ readDocs'[s].data["timestamp"] # -1)
                 => /\ (s \in active') <=>
                           (now - readDocs'[s].data["timestamp"] < 30)
                    /\ s \in server_stats'
                    /\ \A k \in StatKeys :
                           aggStats'[k] = aggStats[k] + readDocs'[s].data[k]
       /\ (Refactored /\ aggPc = "reading" /\ aggPc' = "sleeping")
              => /\ aggStats'.active_servers = Cardinality(active)
                 /\ aggStats'.servers >= Cardinality(ReadOk)
                 /\ \A k \in StatKeys : aggStats'[k] = SumRead(MaxSources, k)
      ]_vars

\* A cycle has ended that read one stale snapshot (30 seconds old) and one
\* active one: activeServers = 1, servers = 2.
C17_Witness ==
    /\ Refactored
    /\ aggPc = "sleeping"
    /\ \E s \in ReadOk :
           /\ readDocs[s].data["timestamp"] # -1
           /\ s \notin active
           /\ aggStats.processed >= readDocs[s].data["processed"]
    /\ aggStats.active_servers = 1
    /\ aggStats.servers = 2

\* C18: the rps of the view of a cycle is the total processed divided by
\* the time since the start of the aggregator, and the start time is the
\* same in every cycle.
C18_AggregateRps ==
    /\ aggStats.start_time = 0
    /\ (aggPc = "sleeping" /\ aggStats.uptime > 0) =>
           aggStats.rps_num * aggStats.uptime
               = aggStats.processed * aggStats.rps_den

\* The counter totals of a set of files: the sums over the complete ones.
RECURSIVE SumFiles(_, _, _)
SumFiles(f, n, k) ==
    IF n = 0 THEN 0
    ELSE SumFiles(f, n - 1, k)
             + (IF f[n].state = "complete" THEN f[n].data[k] ELSE 0)
PossibleTotals ==
    { [k \in StatKeys |-> SumFiles(f, MaxSources, k)] :
          f \in [Sources -> FileContents] }

\* C19: over files that do not change, the counter totals a cycle ends with
\* are the totals every later cycle ends with.
C19_RepeatableTotals ==
    \A v \in PossibleTotals :
        [](  (aggPc = "sleeping" /\ Totals(aggStats) = v)
          => [](aggPc = "sleeping" => Totals(aggStats) = v))

\* A second cycle has ended, over files that hold counters.
C19_Witness ==
    /\ cycles >= 2
    /\ aggPc = "sleeping"
    /\ aggStats.processed > 0
    /\ \E s \in Sources : files[s].state = "truncated"

\* C21: when the run has ended after a shutdown signal, every item whose
\* probe had been started was allowed to finish and is counted: once in an
\* outcome counter and once in processed.
C21_InFlightFinish ==
    mainPc = "stopped" =>
        \A i \in Items :
            attempts[i] > 0 =>
                counted[i].outcome = 1 /\ counted[i].processed = 1

\* ------------------------------------------ specification of the publisher
\* One record and one slot, with the clock running: the run of a scanner
\* that lasts longer than one tick.
NextPublish ==
    \/ \E i \in Items : process_credential_start(i)
    \/ \E i \in Items, r \in ProbeResults : process_credential_result(i, r)
    \/ \E i \in Items, ok \in BOOLEAN : process_credential_append(i, ok)
    \/ \E i \in Items : worker_start(i)
    \/ \E i \in Items, r \in ProbeResults : worker_result(i, r)
    \/ \E i \in Items, ok \in BOOLEAN : worker_append(i, ok)
    \/ update_stats_open
    \/ update_stats_write
    \/ dump_stats
    \/ main_gather_return
    \/ final_dump_open
    \/ final_dump_write
    \/ tick

SpecPublish == InitProbe /\ [][NextPublish]_vars

\* A step of the periodic publisher: update_stats or dump_stats has run
\* while main is inside gather.
PublishStep ==
    /\ mainPc = "gather"
    /\ mainPc' = "gather"
    /\ pubPc' # pubPc \/ statsFile' # statsFile

\* Two fractions of the same value.
SameRate(a, b) == a.num * b.den = b.num * a.den

\* C26: a step of the publisher leaves every field of the counters as it
\* was, the rps field included.
C26_PublisherReadsOnly ==
    [][PublishStep => stats' = stats /\ SameRate(rps', rps)]_vars

collect_file_hangs ==
    /\ aggPc = "reading"
    /\ todo # {}
    /\ aggPc' = "hung"
    /\ UNCHANGED << aggImpl, now, files, todo, aggStats, server_stats, active,
                    readDocs, cycles >>
    /\ UNCHANGED << scanVars, utilVars >>

NextHang ==
    \/ NextAgg
    \/ collect_file_hangs

\* The event loop / the interpreter runs the aggregator whenever it can run.
SpecHang ==
    /\ InitAgg
    /\ [][NextHang]_vars
    /\ WF_vars(collect_begin)
    /\ WF_vars(\E ioerr \in BOOLEAN : collect_file(ioerr))
    /\ WF_vars(collect_end)

\* C25: a cycle in which the fetch of one source hangs still completes.
C25_HungSourceIsolated == (aggPc = "hung") ~> (aggPc = "sleeping")

\* ------------------------------------------------ the run without a signal
\* No shutdown signal arrives, every HTTP exchange and every append ends.
NextRun ==
    \/ \E i \in Items : semaphore_acquire(i)
    \/ \E i \in Items : process_credential_start(i)
    \/ \E i \in Items, r \in ProbeResults : process_credential_result(i, r)
    \/ \E i \in Items, ok \in BOOLEAN : process_credential_append(i, ok)
    \/ \E i \in Items : worker_start(i)
    \/ \E i \in Items, r \in ProbeResults : worker_result(i, r)
    \/ \E i \in Items, ok \in BOOLEAN : worker_append(i, ok)
    \/ update_stats_open
    \/ update_stats_write
    \/ dump_stats
    \/ main_gather_return
    \/ main_gather_raise
    \/ final_dump_open
    \/ final_dump_write

\* The ready queue of the event loop is first in, first out: a task that is
\* ready again and again is run (strong fairness); a synchronous write,
\* once begun, is completed.
SpecRun ==
    /\ Init
    /\ [][NextRun]_vars
    /\ SF_vars(\E i \in Items : semaphore_acquire(i))
    /\ SF_vars(\E i \in Items : process_credential_start(i))
    /\ SF_vars(\E i \in Items, r \in ProbeResults :
                   process_credential_result(i, r))
    /\ SF_vars(\E i \in Items, ok \in BOOLEAN :
                   process_credential_append(i, ok))
    /\ SF_vars(\E i \in Items : worker_start(i))
    /\ SF_vars(\E i \in Items, r \in ProbeResults : worker_result(i, r))
    /\ SF_vars(\E i \in Items, ok \in BOOLEAN : worker_append(i, ok))
    /\ WF_vars(update_stats_write)
    /\ SF_vars(main_gather_return)
    /\ SF_vars(main_gather_raise)
    /\ WF_vars(final_dump_open)
    /\ WF_vars(final_dump_write)

\* Item n, if there is such a well-formed item, has acquired a slot.
HasAcquired(n) ==
    IF n \in Items
    THEN WellFormed(credentials[n]) => attempts[n] > 0
    ELSE TRUE

RunReturned == mainPc \in {"done", "aborted"}

\* C24: every well-formed item eventually acquires a slot, the run
\* eventually returns, and whenever no task is in flight no slot is held.
C24_GateLiveness ==
    /\ \A n \in 1..MaxItems : <>HasAcquired(n)
    /\ <>RunReturned
    /\ [](NoneInFlight => semaphore = threads)

\* The same for the two scanners built on process_credential.
GateLivenessUniversal ==
    /\ \A n \in 1..MaxItems : <>(UniversalScanner => HasAcquired(n))
    /\ <>RunReturned
    /\ [](NoneInFlight => semaphore = threads)

\* ---- Startup: reading the work-item source ----

MaxLines == 2

\* The lines a source file may hold: blank ones, comments, records, and
\* lines with surrounding blanks.
StartLines ==
    { << >>, <<" ">>, <<"#", "a">>, <<" ", "#">>, <<"a">>, <<"a", " ">>,
      <<" ", "b">> }

RECURSIVE lstrip(_)
lstrip(l) ==
    IF l # << >> /\ Head(l) = " " THEN lstrip(Tail(l)) ELSE l

RECURSIVE rstrip(_)
rstrip(l) ==
    IF l # << >> /\ l[Len(l)] = " " THEN rstrip(SubSeq(l, 1, Len(l) - 1))
    ELSE l

strip(l) == rstrip(lstrip(l))

startswith(l, c) == l # << >> /\ Head(l) = c

\* vpn_scanner.py tests the comment mark on the raw line, the refactored
\* scanner on the stripped one, sers1.py not at all.
keeps_line(i, l) ==
    /\ strip(l) # << >>
    /\ CASE i = "vpn_scanner" -> ~startswith(l, "#")
         [] i = "refactored" -> ~startswith(strip(l), "#")
         [] OTHER -> TRUE

RECURSIVE load_credentials(_, _)
load_credentials(i, ls) ==
    IF ls = << >> THEN << >>
    ELSE (IF keeps_line(i, Head(ls)) THEN << strip(Head(ls)) >> ELSE << >>)
             \o load_credentials(i, Tail(ls))

SourceFiles ==
    { [state |-> "missing", lines |-> << >>],
      [state |-> "unreadable", lines |-> << >>] }
        \cup { [state |-> "ok", lines |-> ls] :
                   ls \in UNION { [1..n -> StartLines] : n \in 0..MaxLines } }

StartupFrame ==
    /\ UNCHANGED << scanVars, aggVars >>
    /\ UNCHANGED << sec, human_out, lines, summer, part_files, procs,
                    lastCall, remoteFile, localFiles, collPc, content,
                    written >>

\* os.path.exists(creds_file) / glob('part_*.txt')
startup_exists ==
    /\ startPc = "check"
    /\ startPc' = IF creds_file.state = "missing" THEN "aborted" ELSE "load"
    /\ UNCHANGED << creds_file, loaded >>
    /\ StartupFrame

\* open() and the loop over the lines; an error of open() ends the program
startup_load ==
    /\ startPc = "load"
    /\ IF creds_file.state = "unreadable"
       THEN startPc' = "aborted" /\ loaded' = loaded
       ELSE /\ startPc' = "running"
            /\ loaded' = load_credentials(impl, creds_file.lines)
    /\ UNCHANGED creds_file
    /\ StartupFrame

InitStartup ==
    /\ aggImpl = "aggregator_refactored"
    /\ AggInit
    /\ impl \in Impls
    /\ ScanRest
    /\ creds_file \in SourceFiles
    /\ startPc = "check"
    /\ loaded = << >>
    /\ HumanIdle /\ SplitIdle /\ ManagerIdle /\ CollectIdle

NextStartup == startup_exists \/ startup_load

SpecStartup == InitStartup /\ [][NextStartup]_vars

Unreadable == creds_file.state \in {"missing", "unreadable"}
NoWorkItems == load_credentials(impl, creds_file.lines) = << >>
StartupOver == startPc \in {"aborted", "running"}

\* C22: startup aborts if and only if the source is unreadable or yields
\* no work items; a run that is started has at least one work item.
C22_AbortIffNoWork ==
    StartupOver =>
        /\ startPc = "aborted" <=> (Unreadable \/ NoWorkItems)
        /\ startPc = "running" => loaded # << >>

\* ---- human() / human_time(): seconds as HH:MM:SS ----

MaxSec == 3700

DigitChars == <<"0", "1", "2", "3", "4", "5", "6", "7", "8", "9">>

\* str(n) of a non-negative integer
RECURSIVE str(_)
str(n) ==
    IF n < 10 THEN << DigitChars[n + 1] >>
    ELSE str(n \div 10) \o << DigitChars[(n % 10) + 1] >>

RECURSIVE zfill(_, _)
zfill(d, w) == IF Len(d) < w THEN zfill(<<"0">> \o d, w) ELSE d

\* the format specification ":02"
format_plain(n) == str(n)
format_02(n) == zfill(str(n), 2)

human(s) ==
    LET m1 == s \div 60
        s1 == s % 60
        h == m1 \div 60
        m == m1 % 60
    IN  format_02(h) \o <<":">> \o format_02(m) \o <<":">> \o format_02(s1)

human_time(s) ==
    LET m1 == s \div 60
        s1 == s % 60
        h == m1 \div 60
        m == m1 % 60
    IN  format_02(h) \o <<":">> \o format_02(m) \o <<":">> \o format_02(s1)

\* Durations up to MaxSec, and two around a hundred hours.
HumanInputs == 0..MaxSec \cup { 99 * 3600 + 3599, 100 * 3600 + 61 }

HumanFrame ==
    /\ UNCHANGED << scanVars, aggVars >>
    /\ UNCHANGED << creds_file, startPc, loaded, lines, summer, part_files,
                    procs, lastCall, remoteFile, localFiles, collPc,
                    content, written >>

human_call ==
    /\ human_out = << >>
    /\ human_out' = IF aggImpl = "aggregator" THEN human(sec)
                    ELSE human_time(sec)
    /\ UNCHANGED sec
    /\ HumanFrame

InitHuman ==
    /\ aggImpl \in AggImpls
    /\ AggInit
    /\ ScanIdle
    /\ sec \in HumanInputs
    /\ human_out = << >>
    /\ StartupIdle /\ SplitIdle /\ ManagerIdle /\ CollectIdle

NextHuman == human_call

SpecHuman == InitHuman /\ [][NextHuman]_vars

\* Reading the string back: the fields between the colons, as numbers.
RECURSIVE FieldsOf(_)
FieldsOf(str1) ==
    IF \A k \in 1..Len(str1) : str1[k] # ":" THEN << str1 >>
    ELSE LET k == CHOOSE j \in 1..Len(str1) :
                      str1[j] = ":" /\ \A q \in 1..(j - 1) : str1[q] # ":"
         IN  << SubSeq(str1, 1, k - 1) >>
                 \o FieldsOf(SubSeq(str1, k + 1, Len(str1)))

IsDigit(c) == \E d \in 1..10 : DigitChars[d] = c
DigitValue(c) == (CHOOSE d \in 1..10 : DigitChars[d] = c) - 1

RECURSIVE NumberOf(_)
NumberOf(ds) ==
    IF ds = << >> THEN 0
    ELSE 10 * NumberOf(SubSeq(ds, 1, Len(ds) - 1)) + DigitValue(ds[Len(ds)])

\* A field is the number in decimal, two digits wide at least and with no
\* more leading zeros than that needs.
PaddedField(ds, n) ==
    /\ Len(ds) >= 2
    /\ \A k \in 1..Len(ds) : IsDigit(ds[k])
    /\ NumberOf(ds) = n
    /\ Len(ds) > 2 => ds[1] # "0"

\* C23: human(sec) is HH:MM:SS with hours = sec div 3600, minutes =
\* (sec mod 3600) div 60 and seconds = sec mod 60, each zero-padded to two
\* digits; 3661 gives 01:01:01.
C23_HumanFormat ==
    human_out # << >> =>
        LET f == FieldsOf(human_out) IN
        /\ Len(f) = 3
        /\ PaddedField(f[1], sec \div 3600)
        /\ PaddedField(f[2], (sec % 3600) \div 60)
        /\ PaddedField(f[3], sec % 60)
        /\ sec = 3661 =>
               human_out = <<"0", "1", ":", "0", "1", ":", "0", "1">>

C23_Witness ==
    /\ sec = 3661
    /\ human_out = <<"0", "1", ":", "0", "1", ":", "0", "1">>

\* ---- razdelitel.py: gener.txt cut into one part per worker ----

MaxGener == 4
MaxWorkers == 2

GenerLines == {"a", "b"}

\* lines[start:end] of Python, positions counted from 0
slice(ls, start, end) ==
    LET e == IF end > Len(ls) THEN Len(ls) ELSE end
    IN  IF start >= e THEN << >> ELSE SubSeq(ls, start + 1, e)

chunk_size == Len(lines) \div summer

SplitFrame ==
    /\ UNCHANGED << scanVars, aggVars >>
    /\ UNCHANGED << creds_file, startPc, loaded, sec, human_out, procs,
                    lastCall, remoteFile, localFiles, collPc, content,
                    written >>

\* one turn of the loop: part_<i + 1>.txt is written, i = Len(part_files)
write_part ==
    /\ summer # 0
    /\ Len(part_files) < summer
    /\ LET i == Len(part_files)
           start == i * chunk_size
           end == (i + 1) * chunk_size
       IN  part_files' = Append(part_files, slice(lines, start, end))
    /\ UNCHANGED << lines, summer >>
    /\ SplitFrame

InitSplit ==
    /\ aggImpl = "aggregator_refactored"
    /\ AggInit
    /\ ScanIdle
    /\ lines \in UNION { [1..n -> GenerLines] : n \in 0..MaxGener }
    /\ summer \in 0..MaxWorkers
    /\ part_files = << >>
    /\ StartupIdle /\ HumanIdle /\ ManagerIdle /\ CollectIdle

NextSplit == write_part

SpecSplit == InitSplit /\ [][NextSplit]_vars

RECURSIVE Concat(_)
Concat(ps) == IF ps = << >> THEN << >> ELSE Head(ps) \o Concat(Tail(ps))

SplitDone == summer >= 1 /\ Len(part_files) = summer

\* C30: the parts are consecutive slices of the input, in order, and put
\* end to end they are the whole input, whatever its length.
C30_PartsCoverInput == SplitDone => Concat(part_files) = lines

\* ---- scanner_manager.py: start and stop of the scanners ----

\* A name is the sequence of its pieces, so that "sers2" is found inside
\* "sers2.go" as pgrep finds it.
SCANNERS ==
    [t \in ScannerTypes |->
        CASE t = "fortinet" ->
                 [script |-> <<"sers1", ".py">>,
                  process_name |-> <<"sers1", ".py">>, args |-> << >>]
          [] t = "paloalto" ->
                 [script |-> <<"sers2", ".go">>,
                  process_name |-> <<"sers2">>, args |-> << >>]
          [] t = "sonicwall" ->
                 [script |-> <<"sers3", ".py">>,
                  process_name |-> <<"sers3", ".py">>, args |-> << >>]
          [] t = "cisco" ->
                 [script |-> <<"sers4", ".go">>,
                  process_name |-> <<"sers4">>, args |-> << >>]
          [] t = "sophos" ->
                 [script |-> <<"test_scanner", ".py">>,
                  process_name |-> <<"test_scanner", ".py">>,
                  args |-> <<" ", "--vpn-type", " ", "sophos">>]
          [] OTHER ->
                 [script |-> <<"test_scanner", ".py">>,
                  process_name |-> <<"test_scanner", ".py">>,
                  args |-> <<" ", "--vpn-type", " ", "watchguard">>]]

endswith(name, suffix) == name # << >> /\ name[Len(name)] = suffix

\* the command line start_scanner builds for a type
cmd(t) ==
    LET script == SCANNERS[t].script
        prog == IF endswith(script, ".py") THEN <<"python3", " ">> \o script
                ELSE IF endswith(script, ".go")
                     THEN <<"go", " ", "run", " ">> \o script
                     ELSE script
    IN  prog \o SCANNERS[t].args \o <<" ", "--creds-file", " ", "creds/", t>>

\* pgrep -f: the pattern occurs in the command line
pgrep_f(pattern, cmdline) ==
    \E k \in 0..(Len(cmdline) - Len(pattern)) :
        SubSeq(cmdline, k + 1, k + Len(pattern)) = pattern

\* the types whose processes pgrep reports for the process name of t
matched(t) ==
    { u \in ScannerTypes :
          procs[u] > 0 /\ pgrep_f(SCANNERS[t].process_name, cmd(u)) }

get_running_scanners == { t \in ScannerTypes : matched(t) # {} }

ManagerFrame ==
    /\ UNCHANGED << scanVars, aggVars >>
    /\ UNCHANGED << creds_file, startPc, loaded, sec, human_out, lines,
                    summer, part_files, remoteFile, localFiles, collPc,
                    content, written >>

CallArgs == ScannerTypes \cup {"openvpn"}

Call(op, t, ok, res) ==
    [op |-> op, vpn_type |-> t, popen_ok |-> ok,
     alive |-> IF t \in ScannerTypes THEN procs[t] ELSE 0, result |-> res]

start_scanner(t, ok) ==
    /\ IF t \notin ScannerTypes \/ t \in get_running_scanners \/ ~ok
       THEN procs' = procs /\ lastCall' = Call("start", t, ok, FALSE)
       ELSE /\ procs' = [procs EXCEPT ![t] = @ + 1]
            /\ lastCall' = Call("start", t, ok, TRUE)
    /\ ManagerFrame

\* SIGTERM to every pid pgrep reported for the type
stop_scanner(t) ==
    /\ IF t \notin get_running_scanners
       THEN procs' = procs /\ lastCall' = Call("stop", t, TRUE, FALSE)
       ELSE /\ procs' = [u \in ScannerTypes |->
                            IF u \in matched(t) THEN 0 ELSE procs[u]]
            /\ lastCall' = Call("stop", t, TRUE, TRUE)
    /\ ManagerFrame

\* a scanner finishes its list and exits
scanner_exit(t) ==
    /\ procs[t] > 0
    /\ procs' = [procs EXCEPT ![t] = @ - 1]
    /\ UNCHANGED lastCall
    /\ ManagerFrame

InitManager ==
    /\ aggImpl = "aggregator_refactored"
    /\ AggInit
    /\ ScanIdle
    /\ ManagerIdle
    /\ StartupIdle /\ HumanIdle /\ SplitIdle /\ CollectIdle

NextManager ==
    \/ \E t \in CallArgs, ok \in BOOLEAN : start_scanner(t, ok)
    \/ \E t \in CallArgs : stop_scanner(t)
    \/ \E t \in ScannerTypes : scanner_exit(t)

SpecManager == InitManager /\ [][NextManager]_vars

\* C29: a start call for a type launches a process exactly when no
\* process of that type is alive, whatever runs for the other types (the
\* operating system being able to create the process); so no type ever
\* has two processes started by the manager.
C29_StartIffNotRunning ==
    /\ (lastCall.op = "start" /\ lastCall.vpn_type \in ScannerTypes
            /\ lastCall.popen_ok)
           => (lastCall.result <=> lastCall.alive = 0)
    /\ \A t \in ScannerTypes : procs[t] <= 1

\* ---- collect_results.py against a scanner that still appends ----

MaxAppends == 3
MaxCopies == 2

CollectFrame ==
    /\ UNCHANGED << scanVars, aggVars >>
    /\ UNCHANGED << creds_file, startPc, loaded, sec, human_out, lines,
                    summer, part_files, procs, lastCall >>

\* vpn_scanner.py opens the results log in mode "a" for every accepted
\* record: the file is created when it is not there.  The lines are
\* numbered in the order of their appends.
scanner_append ==
    /\ written < MaxAppends
    /\ written' = written + 1
    /\ remoteFile' = [state |-> "ok",
                      lines |-> Append(remoteFile.lines, written + 1)]
    /\ UNCHANGED << localFiles, collPc, content >>
    /\ CollectFrame

\* sftp.file(remote_path).read(); an error is printed and the file skipped
collect_read(ok) ==
    /\ collPc = "idle"
    /\ remoteFile.state = "ok"
    /\ IF ok THEN content' = remoteFile.lines /\ collPc' = "read"
       ELSE UNCHANGED << content, collPc >>
    /\ UNCHANGED << remoteFile, localFiles, written >>
    /\ CollectFrame

\* the local copy is written unless the content is blank
collect_save(ok) ==
    /\ collPc = "read"
    /\ Len(localFiles) < MaxCopies
    /\ IF content # << >> /\ ok
       THEN localFiles' = Append(localFiles, content) /\ collPc' = "saved"
       ELSE localFiles' = localFiles /\ collPc' = "idle"
    /\ UNCHANGED << remoteFile, content, written >>
    /\ CollectFrame

\* sftp.remove(remote_path)
collect_remove(ok) ==
    /\ collPc = "saved"
    /\ remoteFile' = IF ok THEN NoFile ELSE remoteFile
    /\ collPc' = "idle"
    /\ UNCHANGED << localFiles, content, written >>
    /\ CollectFrame

InitCollect ==
    /\ aggImpl = "aggregator_refactored"
    /\ AggInit
    /\ ScanIdle
    /\ remoteFile \in {NoFile, [state |-> "ok", lines |-> << >>]}
    /\ localFiles = << >>
    /\ collPc = "idle"
    /\ content = << >>
    /\ written = 0
    /\ StartupIdle /\ HumanIdle /\ SplitIdle /\ ManagerIdle

NextCollect ==
    \/ scanner_append
    \/ \E ok \in BOOLEAN : collect_read(ok)
    \/ \E ok \in BOOLEAN : collect_save(ok)
    \/ \E ok \in BOOLEAN : collect_remove(ok)

SpecCollect == InitCollect /\ [][NextCollect]_vars

InSeq(x, sq) == \E k \in 1..Len(sq) : sq[k] = x
SavedLocally(x) == \E c \in 1..Len(localFiles) : InSeq(x, localFiles[c])
LinesKept ==
    \A x \in 1..written : SavedLocally(x) \/ InSeq(x, remoteFile.lines)
RemovedAfterSave ==
    (remoteFile.state = "ok" /\ remoteFile'.state = "missing")
        => \E c \in 1..Len(localFiles) : localFiles[c] = content

\* C28: the remote results file is removed only after what was read from
\* it has been saved locally, and every line the scanner has appended is
\* in a saved local copy or in the remote file.
C28_NoLineLost == [][RemovedAfterSave]_vars /\ []LinesKept

====
